---- MODULE Spec2Model ----
(***************************************************************************)
(* A model of dcfuncs/configs.py (get_configs and its two helpers rupdate  *)
(* and finaldict) and of dcfuncs/util.py (get_units, CpuTimer and          *)
(* SimArrays.extend).                                                      *)
(*                                                                         *)
(* Python objects live in a heap (a sequence of objects, the address of an *)
(* object being its index), so that copying, aliasing and in-place         *)
(* mutation are visible.  A value is None, a scalar, or a reference to a   *)
(* heap object; a heap object is a dict (keys in insertion order plus the  *)
(* key -> value function) or a list.  Keys are strings, as in the          *)
(* documents the configuration files hold.                                 *)
(***************************************************************************)
EXTENDS Integers, Sequences, FiniteSets, TLC

VARIABLES
    heap,      \* the Python heap: Seq of objects
    heap0,     \* the heap as it was when the current call started
    \* ---- a direct call rupdate(dict1, dict2) ----
    mpc,       \* "idle" | "call" | "done"
    dict1,     \* first argument (a value)
    dict2,     \* second argument (a value)
    mres,      \* outcome of the call: [h, err, v]
    \* ---- a call get_configs(cfiles, types, verbose) ----
    fs,        \* the file system: path -> contents
    cfiles,    \* argument: Seq of file names
    types,     \* argument: Seq of allowed types
    verbose,   \* argument: verbosity
    pc,        \* position in get_configs
    files,     \* local: the paths with suffix .yaml
    fi,        \* local: index of the file the loop is at
    strm,      \* the paths currently open
    pending,   \* exception travelling through the exit of the with block
    fdicts,    \* local: per file, the list of its documents
    cdicts,    \* local: the resolved configurations
    nd,        \* local: len(cdicts)
    out,       \* what has been printed, line by line
    vi,        \* local: number of configurations the type check passed
    ret,       \* what the call returned: NoReturn or ListV(list)
    exc,       \* the exception raised out of the call, or ""
    \* ---- a CpuTimer (util.py) ----
    tpc,       \* "idle" | "on": the timer exists and is enabled
    perf_counter, \* the last reading of time.perf_counter(), in clock ticks
    clk,       \* self.clk: the clock at the most recent mark
    ts,        \* self.ts: item -> cumulative time
    nests,     \* self.nests: item -> nesting
    marks,     \* the calls made since creation or the last zero()
    \* ---- a SimArrays (util.py) ----
    apc,       \* "idle" | "ready" | "extended" | "exited"
    rows,      \* self.rows: the number of rows, saved for extend
    rows0,     \* the number of rows the arrays were initialized with
    arrays,    \* the arrays, by attribute name: name -> Seq of rows
    arrays0,   \* the arrays as they were when the last extend call started
    acall,     \* the arguments of the last extend call
    \* ---- a call get_units(num) (util.py) ----
    upc,       \* "idle" | "call" | "done"
    num,       \* argument: a decimal number
    ures       \* what the call returned

mvars == <<mpc, dict1, dict2, mres>>
gvars == <<fs, cfiles, types, verbose, pc, files, fi, strm, pending, fdicts,
           cdicts, nd, out, vi, ret, exc>>
tvars == <<tpc, perf_counter, clk, ts, nests, marks>>
avars == <<apc, rows, rows0, arrays, arrays0, acall>>
uvars == <<upc, num, ures>>
\* the state of util.py
ovars == <<tvars, avars, uvars>>
vars == <<heap, heap0, mvars, gvars, ovars>>

----------------------------------------------------------------------------
(* Values and heap objects *)

NoneV == [t |-> "none"]
Str(s) == [t |-> "str", v |-> s]
Ref(a) == [t |-> "ref", a |-> a]

EmptyItems == [k \in {} |-> NoneV]
DictObj(ks, its) == [t |-> "dict", keys |-> ks, items |-> its]
ListObj(es) == [t |-> "list", elems |-> es]
EmptyDict == DictObj(<<>>, EmptyItems)

IsRef(v) == v.t = "ref"
\* isinstance(v, dict)
IsDict(h, v) == IsRef(v) /\ h[v.a].t = "dict"
IsList(h, v) == IsRef(v) /\ h[v.a].t = "list"
\* The keys of the dict d and its value at k.
KeysOf(h, d) == DOMAIN h[d.a].items
ItemOf(h, d, k) == h[d.a].items[k]

\* Outcomes of an evaluation: the heap after it, the exception it raised
\* ("" when it returned) and the value it returned.
Ok(h, v) == [h |-> h, err |-> "", v |-> v]
Raise(h, e) == [h |-> h, err |-> e, v |-> NoneV]

\* Allocation of a new object.
New(h, obj) == Ok(Append(h, obj), Ref(Len(h) + 1))

\* The content of a value: the tree it denotes, without addresses and
\* without key order (Python's == on dicts and lists).
RECURSIVE Content(_, _)
Content(h, v) ==
    IF ~IsRef(v) THEN v
    ELSE LET o == h[v.a] IN
         IF o.t = "dict"
         THEN [t |-> "dict",
               items |-> [k \in DOMAIN o.items |-> Content(h, o.items[k])]]
         ELSE [t |-> "list",
               elems |-> [i \in 1..Len(o.elems) |-> Content(h, o.elems[i])]]

\* A literal, as the yaml loader builds it: a tree whose dicts carry their
\* keys in document order.  Load allocates it, children first.
RECURSIVE Load(_, _), LoadItems(_, _, _, _), LoadElems(_, _, _, _)
Load(h, lit) ==
    IF lit.t = "dict" THEN LoadItems(h, lit, 1, EmptyItems)
    ELSE IF lit.t = "list" THEN LoadElems(h, lit, 1, <<>>)
    ELSE Ok(h, lit)
LoadItems(h, lit, i, its) ==
    IF i > Len(lit.keys) THEN New(h, DictObj(lit.keys, its))
    ELSE LET k == lit.keys[i]
             r == Load(h, lit.items[k])
         IN LoadItems(r.h, lit, i + 1,
                [x \in DOMAIN its \cup {k} |-> IF x = k THEN r.v ELSE its[x]])
LoadElems(h, lit, i, es) ==
    IF i > Len(lit.elems) THEN New(h, ListObj(es))
    ELSE LET r == Load(h, lit.elems[i])
         IN LoadElems(r.h, lit, i + 1, Append(es, r.v))

----------------------------------------------------------------------------
(* rupdate and finaldict *)

\* dict1.copy(): a new object with the same entries (a shallow copy).  None
\* and scalars have no copy method.
CopyAliased(h, v) ==
    IF ~IsRef(v) THEN Raise(h, "AttributeError") ELSE Ok(h, v)
CopyEmpty(h, v) ==
    IF ~IsRef(v) THEN Raise(h, "AttributeError") ELSE New(h, EmptyDict)
Copy(h, v) ==
    IF ~IsRef(v) THEN Raise(h, "AttributeError") ELSE New(h, h[v.a])

\* d.get(key, {}): a list has no get method.  The default {} is allocated
\* only when it is the result (otherwise it is garbage at once).
Get(h, d, key) ==
    IF ~IsDict(h, d) THEN Raise(h, "AttributeError")
    ELSE IF key \in DOMAIN h[d.a].items THEN Ok(h, h[d.a].items[key])
    ELSE New(h, EmptyDict)

\* d[key] = val, in place: a list does not take a string index.
SetItemKeep(h, d, key, val) ==
    IF ~IsDict(h, d) THEN Raise(h, "TypeError")
    ELSE LET o == h[d.a] IN
         IF key \in DOMAIN o.items THEN Ok(h, d)
         ELSE Ok([h EXCEPT ![d.a] =
                     DictObj(Append(o.keys, key),
                             [x \in DOMAIN o.items \cup {key} |->
                                 IF x = key THEN val ELSE o.items[x]])], d)
SetItem(h, d, key, val) ==
    IF ~IsDict(h, d) THEN Raise(h, "TypeError")
    ELSE LET o == h[d.a]
             ks == IF key \in DOMAIN o.items THEN o.keys
                   ELSE Append(o.keys, key)
             its == [x \in DOMAIN o.items \cup {key} |->
                        IF x = key THEN val ELSE o.items[x]]
         IN Ok([h EXCEPT ![d.a] = DictObj(ks, its)], d)

RECURSIVE rupdate(_, _, _), rupdateLoop(_, _, _, _)
rupdate(h, d1, d2) ==
    LET c == Copy(h, d1)
    IN IF c.err # "" THEN c
       \* dict2.items(): only reached with a dict in the code's own calls
       ELSE IF ~IsDict(c.h, d2) THEN Raise(c.h, "AttributeError")
       ELSE rupdateLoop(c.h, c.v, d2, 1)
\* The for loop of rupdate from the i-th entry of dict2 on.
rupdateLoop(h, dict1c, d2, i) ==
    LET o2 == h[d2.a] IN
    IF i > Len(o2.keys) THEN Ok(h, dict1c)
    ELSE LET key == o2.keys[i]
             val == o2.items[key]
         IN IF IsDict(h, val)
            THEN LET g == Get(h, dict1c, key) IN
                 IF g.err # "" THEN g
                 ELSE LET r == rupdate(g.h, g.v, val) IN
                      IF r.err # "" THEN r
                      ELSE LET s == SetItem(r.h, dict1c, key, r.v) IN
                           IF s.err # "" THEN s
                           ELSE rupdateLoop(s.h, dict1c, d2, i + 1)
            ELSE LET s == SetItem(h, dict1c, key, val) IN
                 IF s.err # "" THEN s
                 ELSE rupdateLoop(s.h, dict1c, d2, i + 1)

\* finaldict(dicts): successively update an initially empty dict.
RECURSIVE finaldictLoopRev(_, _, _, _)
finaldictLoopRev(h, fd, dicts, i) ==
    IF i > Len(dicts) THEN Ok(h, fd)
    ELSE LET r == rupdate(h, fd, dicts[Len(dicts) + 1 - i]) IN
         IF r.err # "" THEN r ELSE finaldictLoopRev(r.h, r.v, dicts, i + 1)
RECURSIVE finaldictLoop(_, _, _, _)
finaldictLoop(h, fd, dicts, i) ==
    IF i > Len(dicts) THEN Ok(h, fd)
    ELSE LET r == rupdate(h, fd, dicts[i]) IN
         IF r.err # "" THEN r ELSE finaldictLoop(r.h, r.v, dicts, i + 1)
finaldict(h, dicts) ==
    LET e == New(h, EmptyDict) IN finaldictLoop(e.h, e.v, dicts, 1)

----------------------------------------------------------------------------
(* Inputs of a direct call of rupdate: every mapping with at most MaxSize  *)
(* entries over all its levels, on the keys "a" and "b", whose leaves are  *)
(* None, a scalar or a list.                                               *)

MaxSize == 2

KeySet == {"a", "b"}
ListLit == ListObj(<<Str("7")>>)
Leaves(S) == {Str(s) : s \in S} \cup {NoneV, ListLit}
One(k, v) == DictObj(<<k>>, [x \in {k} |-> v])
Two(v1, v2) == DictObj(<<"a", "b">>,
                       [x \in KeySet |-> IF x = "a" THEN v1 ELSE v2])

RECURSIVE DictsOfSize(_, _), ValsOfWeight(_, _)
ValsOfWeight(S, w) ==
    IF w = 0 THEN Leaves(S) \cup {EmptyDict} ELSE DictsOfSize(S, w)
DictsOfSize(S, n) ==
    IF n = 0 THEN {EmptyDict}
    ELSE {One(k, v) : k \in KeySet, v \in ValsOfWeight(S, n - 1)}
         \cup (IF n < 2 THEN {}
               ELSE UNION {{Two(v1, v2) : v1 \in ValsOfWeight(S, w),
                                          v2 \in ValsOfWeight(S, n - 2 - w)}
                           : w \in 0..(n - 2)})
Mappings(S) == UNION {DictsOfSize(S, n) : n \in 0..MaxSize}

\* What the call returned: nothing yet, or a list.
NoReturn == [t |-> "noreturn"]
ListV(l) == [t |-> "list", v |-> l]
NoOutcome == [h |-> <<>>, err |-> "pending", v |-> NoneV]

\* get_configs is not running.
GIdle ==
    /\ fs = <<>> /\ cfiles = <<>> /\ types = <<>> /\ verbose = 0
    /\ pc = "idle" /\ files = <<>> /\ fi = 0 /\ strm = {} /\ pending = ""
    /\ fdicts = <<>> /\ cdicts = <<>> /\ nd = 0 /\ out = <<>> /\ vi = 0
    /\ ret = NoReturn /\ exc = ""

\* rupdate is not being called directly.
MIdle == mpc = "idle" /\ dict1 = NoneV /\ dict2 = NoneV /\ mres = NoOutcome

\* Nothing of util.py is in use: no timer, no SimArrays, no call of
\* get_units.
NoCall == [t |-> "nocall"]
TIdle ==
    /\ tpc = "idle" /\ perf_counter = 0 /\ clk = 0
    /\ ts = <<>> /\ nests = <<>> /\ marks = <<>>
AIdle ==
    /\ apc = "idle" /\ rows = 0 /\ rows0 = 0
    /\ arrays = <<>> /\ arrays0 = <<>> /\ acall = NoCall
UIdle == upc = "idle" /\ num = NoneV /\ ures = NoneV

InitMerge ==
    /\ GIdle /\ TIdle /\ AIdle /\ UIdle
    /\ \E A \in Mappings({"1"}), B \in Mappings({"2"}) :
          LET la == Load(<<>>, A)
              lb == Load(la.h, B)
          IN /\ heap = lb.h /\ heap0 = lb.h
             /\ dict1 = la.v /\ dict2 = lb.v
    /\ mpc = "call" /\ mres = NoOutcome

\* The call dict1c = rupdate(dict1, dict2), to its return or its exception.
Rupdate ==
    /\ mpc = "call"
    /\ mres' = rupdate(heap, dict1, dict2)
    /\ heap' = mres'.h
    /\ mpc' = "done"
    /\ UNCHANGED <<heap0, dict1, dict2, gvars, ovars>>

NextMerge == Rupdate
SpecMerge == InitMerge /\ [][NextMerge]_vars

----------------------------------------------------------------------------
(* get_configs *)

\* A file name is a stem and a suffix; Path(cfile).with_suffix('.yaml')
\* replaces the suffix, and str(file) is the two joined.
Name(stem, suffix) == [stem |-> stem, suffix |-> suffix]
with_suffix(name) == Name(name.stem, ".yaml")

\* itertools.product(*pools): the pools are extended one by one,
\* result = [x + [y] for x in result for y in pool], from [[]].
ForY(x, pool) == [iy \in 1..Len(pool) |-> Append(x, pool[iy])]
RECURSIVE ForXSwapped(_, _, _)
ForXSwapped(result, pool, iy) ==
    IF iy > Len(pool) THEN <<>>
    ELSE [ix \in 1..Len(result) |-> Append(result[ix], pool[iy])]
         \o ForXSwapped(result, pool, iy + 1)
RECURSIVE ForX(_, _, _)
ForX(result, pool, ix) ==
    IF ix > Len(result) THEN <<>>
    ELSE ForY(result[ix], pool) \o ForX(result, pool, ix + 1)
RECURSIVE productLoop(_, _, _)
productLoop(pools, i, result) ==
    IF i > Len(pools) THEN result
    ELSE productLoop(pools, i + 1, ForX(result, pools[i], 1))
productNoSeed(pools) == productLoop(pools, 1, <<>>)
product(pools) == productLoop(pools, 1, << <<>> >>)

\* [finaldict(combo) for combo in combos], from the i-th combination on;
\* acc holds the configurations built so far.
RECURSIVE cdictsLoop(_, _, _, _)
cdictsLoop(h, combos, i, acc) ==
    IF i > Len(combos) THEN Ok(h, acc)
    ELSE LET r == finaldict(h, combos[i]) IN
         IF r.err # "" THEN r
         ELSE cdictsLoop(r.h, combos, i + 1, Append(acc, r.v))

\* yaml.safe_load_all(strm), as a list: every document of the file is
\* built anew, in file order.
RECURSIVE safe_load_all(_, _, _, _)
safe_load_all(h, docs, i, acc) ==
    IF i > Len(docs) THEN Ok(h, acc)
    ELSE LET r == Load(h, docs[i])
         IN safe_load_all(r.h, docs, i + 1, Append(acc, r.v))

TypeOfDefault(h, cdict) ==
    IF "type" \in KeysOf(h, cdict) THEN ItemOf(h, cdict, "type")
    ELSE Str(types[1])
\* cdict.get('type'): None when the key is missing.
TypeOf(h, cdict) ==
    IF "type" \in KeysOf(h, cdict) THEN ItemOf(h, cdict, "type") ELSE NoneV
\* x in types
InTypes(h, x) == \E i \in 1..Len(types) : Content(h, x) = Str(types[i])

\* Line 81 and 84: the paths to read, and the empty list of lists.
Start ==
    /\ pc = "start"
    /\ files' = [i \in 1..Len(cfiles) |-> with_suffix(cfiles[i])]
    /\ fdicts' = <<>>
    /\ fi' = 1
    /\ pc' = "for"
    /\ UNCHANGED <<heap, heap0, mvars, ovars, fs, cfiles, types, verbose,
                   strm, pending, cdicts, nd, out, vi, ret, exc>>

\* Line 86, open(file) of a file that does not exist.
OpenMissing ==
    /\ pc = "for" /\ fi <= Len(files)
    /\ fs[files[fi]].k = "missing"
    /\ exc' = "FileNotFoundError"
    /\ pc' = "raised"
    /\ UNCHANGED <<heap, heap0, mvars, ovars, fs, cfiles, types, verbose,
                   files, fi, strm, pending, fdicts, cdicts, nd, out, vi,
                   ret>>

\* Line 86, open(file) as strm.
Open ==
    /\ pc = "for" /\ fi <= Len(files)
    /\ fs[files[fi]].k # "missing"
    /\ strm' = strm \cup {files[fi]}
    /\ pc' = "load"
    /\ UNCHANGED <<heap, heap0, mvars, ovars, fs, cfiles, types, verbose,
                   files, fi, pending, fdicts, cdicts, nd, out, vi, ret,
                   exc>>

\* Line 87 on a file that does not parse: the loader raises.
LoadBad ==
    /\ pc = "load"
    /\ fs[files[fi]].k = "bad"
    /\ pending' = "YAMLError"
    /\ pc' = "exit_with"
    /\ UNCHANGED <<heap, heap0, mvars, ovars, fs, cfiles, types, verbose,
                   files, fi, strm, fdicts, cdicts, nd, out, vi, ret, exc>>

\* Line 87: fdicts.append([*yaml.safe_load_all(strm)]).
AtLoadDocs == pc = "load" /\ fs[files[fi]].k = "docs"
LoadDocs ==
    /\ AtLoadDocs
    /\ LET r == safe_load_all(heap, fs[files[fi]].docs, 1, <<>>)
       IN /\ heap' = r.h
          /\ fdicts' = Append(fdicts, r.v)
    /\ pc' = "exit_with"
    /\ UNCHANGED <<heap0, mvars, ovars, fs, cfiles, types, verbose, files,
                   fi, strm, pending, cdicts, nd, out, vi, ret, exc>>

ExitWithSwallow ==
    /\ pc = "exit_with"
    /\ strm' = strm \ {files[fi]}
    /\ fi' = fi + 1 /\ pc' = "for"
    /\ UNCHANGED <<heap, heap0, mvars, ovars, fs, cfiles, types, verbose,
                   files, pending, fdicts, cdicts, nd, out, vi, ret, exc>>
ExitWithOpen ==
    /\ pc = "exit_with"
    /\ IF pending # ""
       THEN /\ exc' = pending /\ pc' = "raised" /\ UNCHANGED fi
       ELSE /\ fi' = fi + 1 /\ pc' = "for" /\ UNCHANGED exc
    /\ UNCHANGED <<heap, heap0, mvars, ovars, fs, cfiles, types, verbose,
                   files, strm, pending, fdicts, cdicts, nd, out, vi, ret>>
\* The exit of the with block: the file is closed, then a pending
\* exception goes on and otherwise the loop goes to the next file.
ExitWith ==
    /\ pc = "exit_with"
    /\ strm' = strm \ {files[fi]}
    /\ IF pending # ""
       THEN /\ exc' = pending /\ pc' = "raised" /\ UNCHANGED fi
       ELSE /\ fi' = fi + 1 /\ pc' = "for" /\ UNCHANGED exc
    /\ UNCHANGED <<heap, heap0, mvars, ovars, fs, cfiles, types, verbose,
                   files, pending, fdicts, cdicts, nd, out, vi, ret>>

\* Lines 91 and 92: every combination of documents is folded to a dict.
AtCombine == pc = "for" /\ fi > Len(files)
Combine ==
    /\ AtCombine
    /\ LET r == cdictsLoop(heap, product(fdicts), 1, <<>>)
       IN /\ heap' = r.h
          /\ IF r.err # ""
             THEN /\ exc' = r.err /\ pc' = "raised"
                  /\ UNCHANGED <<cdicts, nd>>
             ELSE /\ cdicts' = r.v /\ nd' = Len(r.v) /\ pc' = "summary"
                  /\ UNCHANGED exc
    /\ UNCHANGED <<heap0, mvars, ovars, fs, cfiles, types, verbose, files,
                   fi, strm, pending, fdicts, out, vi, ret>>

\* Lines 93 to 95: the line on the number of configs and the files read.
Summary ==
    /\ pc = "summary"
    /\ out' = IF verbose >= 1
              THEN Append(out, [line |-> "Read", nd |-> nd, files |-> files])
              ELSE out
    /\ pc' = "configs"
    /\ UNCHANGED <<heap, heap0, mvars, ovars, fs, cfiles, types, verbose,
                   files, fi, strm, pending, fdicts, cdicts, nd, vi, ret,
                   exc>>

\* Lines 96 to 98: the dicts being returned.
PrintConfigs ==
    /\ pc = "configs"
    /\ out' = IF verbose >= 2
              THEN out \o [ic \in 1..Len(cdicts) |->
                              [line |-> "CONFIG", ic |-> ic, nd |-> nd,
                               c |-> Content(heap, cdicts[ic])]]
              ELSE out
    /\ pc' = "check"
    /\ UNCHANGED <<heap, heap0, mvars, ovars, fs, cfiles, types, verbose,
                   files, fi, strm, pending, fdicts, cdicts, nd, vi, ret,
                   exc>>

\* Lines 100 and 101: the next dict has its type among types.
TypeOk ==
    /\ pc = "check" /\ types # <<>> /\ vi < Len(cdicts)
    /\ InTypes(heap, TypeOf(heap, cdicts[vi + 1]))
    /\ vi' = vi + 1
    /\ UNCHANGED <<heap, heap0, mvars, ovars, fs, cfiles, types, verbose, pc,
                   files, fi, strm, pending, fdicts, cdicts, nd, out, ret,
                   exc>>

\* Lines 101 to 103: it has not, and dutil.zz raises SystemExit
\* (util.py lines 49 and 50, warn being False).
TypeMismatch ==
    /\ pc = "check" /\ types # <<>> /\ vi < Len(cdicts)
    /\ ~InTypes(heap, TypeOf(heap, cdicts[vi + 1]))
    /\ exc' = "SystemExit"
    /\ pc' = "raised"
    /\ UNCHANGED <<heap, heap0, mvars, ovars, fs, cfiles, types, verbose,
                   files, fi, strm, pending, fdicts, cdicts, nd, out, vi,
                   ret>>

\* Line 104: return cdicts.
Return ==
    /\ pc = "check" /\ (types = <<>> \/ vi >= Len(cdicts))
    /\ ret' = ListV(cdicts)
    /\ pc' = "done"
    /\ UNCHANGED <<heap, heap0, mvars, ovars, fs, cfiles, types, verbose,
                   files, fi, strm, pending, fdicts, cdicts, nd, out, vi,
                   exc>>

----------------------------------------------------------------------------
(* Inputs of get_configs *)

MaxFiles == 2    \* files named in one call
MaxDocs == 2     \* documents in one file

Leaf(k, s) == One(k, Str(s))
\* {a: 1, b: {x: 1, y: 2}, type: svc}
DocBase ==
    DictObj(<<"a", "b", "type">>,
            [k \in {"a", "b", "type"} |->
                IF k = "a" THEN Str("1")
                ELSE IF k = "type" THEN Str("svc")
                ELSE DictObj(<<"x", "y">>,
                             [j \in {"x", "y"} |->
                                 IF j = "x" THEN Str("1") ELSE Str("2")])])
\* {b: {y: 9}}
DocOver == One("b", Leaf("y", "9"))
\* {b: {y: 9}, l: [{z: 1}], type: other}
DocOther ==
    DictObj(<<"b", "l", "type">>,
            [k \in {"b", "l", "type"} |->
                IF k = "b" THEN Leaf("y", "9")
                ELSE IF k = "l" THEN ListObj(<<Leaf("z", "1")>>)
                ELSE Str("other")])
\* {b: 5}
DocFlat == Leaf("b", "5")
SeqsUpTo(S, n) == UNION {[1..m -> S] : m \in 0..n}
Missing == [k |-> "missing"]
Bad == [k |-> "bad"]
CFileNames == {Name("base", ""), Name("over", "")}
\* The documents a file may hold: defaults in base.yaml, overrides in
\* over.yaml.
DocsIn(path) ==
    IF path.stem = "base" THEN {DocBase, DocFlat} ELSE {DocOver, DocOther}
\* What a path may hold: nothing, text that does not parse, or documents.
Contents(path) ==
    {Missing, Bad} \cup {[k |-> "docs", docs |-> ds] :
                            ds \in SeqsUpTo(DocsIn(path), MaxDocs)}
FileSystems(paths) ==
    {f \in [paths -> UNION {Contents(p) : p \in paths}] :
        \A p \in paths : f[p] \in Contents(p)}
TypeLists == {<<>>, <<"svc">>}
Verbosities == {0, 1, 2}

Init ==
    /\ MIdle /\ TIdle /\ AIdle /\ UIdle
    /\ heap = <<>> /\ heap0 = <<>>
    /\ cfiles \in SeqsUpTo(CFileNames, MaxFiles)
    /\ fs \in FileSystems({with_suffix(cfiles[i]) : i \in 1..Len(cfiles)})
    /\ types \in TypeLists
    /\ verbose \in Verbosities
    /\ pc = "start"
    /\ files = <<>> /\ fi = 0 /\ strm = {} /\ pending = ""
    /\ fdicts = <<>> /\ cdicts = <<>> /\ nd = 0 /\ out = <<>> /\ vi = 0
    /\ ret = NoReturn /\ exc = ""

Next ==
    \/ Start \/ OpenMissing \/ Open \/ LoadBad \/ LoadDocs \/ ExitWith
    \/ Combine \/ Summary \/ PrintConfigs \/ TypeOk \/ TypeMismatch \/ Return

Spec == Init /\ [][Next]_vars

----------------------------------------------------------------------------
(* util.py: CpuTimer *)

MaxClock == 3    \* the largest reading of the clock
MaxMarks == 3    \* calls of mark on a timer since its creation or zero()

\* Times are counted in ticks of the clock, so that sums of intervals are
\* exact.  time.perf_counter() never runs backwards: a reading is at least
\* the reading before it.
Readings == perf_counter..MaxClock

\* What mark is called with: nothing (item=None), the empty string, or a
\* name (those of test-util.py).
Items == {NoneV, Str(""), Str("e4a"), Str("e6a")}
\* not item
Falsy(item) == item = NoneV \/ item = Str("")

\* d[k] = v on a dict held as a function.
Put(d, k, v) == [x \in DOMAIN d \cup {k} |-> IF x = k THEN v ELSE d[x]]

\* self.mark(item, nesting) of an enabled timer, on the attributes
\* self = [clk, ts, nests], c being what time.perf_counter() returns.
mark(self, item, nesting, c) ==
    LET clk0 == self.clk
        self1 == [self EXCEPT !.clk = c]
    IN IF Falsy(item) THEN self1
       ELSE LET dt == self1.clk - clk0 IN
            IF item \in DOMAIN self1.ts
            THEN [self1 EXCEPT !.ts[item] = @ + dt]
            ELSE [self1 EXCEPT !.ts = Put(@, item, dt),
                               !.nests = Put(@, item, nesting)]

\* sum(f[j] for j in S)
RECURSIVE sum(_, _)
sum(f, S) ==
    IF S = {} THEN 0
    ELSE LET j == CHOOSE x \in S : TRUE IN f[j] + sum(f, S \ {j})
\* self.t(item) and self.ttot()
tOf(item) ==
    IF tpc = "off" THEN 0
    ELSE IF item \in DOMAIN ts THEN ts[item] ELSE 0
ttot == IF tpc = "off" THEN 0 ELSE sum(ts, DOMAIN ts)

\* A call, as remembered in marks: what it was given and what the clock
\* read.
Called(item, c) == [item |-> item, at |-> c]

\* The timer after CpuTimer(on=on): a disabled timer has no attribute but
\* off; an enabled one has set clk = 0.0 and called mark().
InitTimer ==
    /\ GIdle /\ MIdle /\ AIdle /\ UIdle
    /\ heap = <<>> /\ heap0 = <<>>
    /\ \E on \in BOOLEAN :
          IF ~on
          THEN /\ tpc = "off" /\ perf_counter = 0 /\ clk = 0
               /\ ts = <<>> /\ nests = <<>> /\ marks = <<>>
          ELSE \E c \in 0..MaxClock :
                  LET self == mark([clk |-> 0, ts |-> <<>>, nests |-> <<>>],
                                   NoneV, NoneV, c)
                  IN /\ tpc = "on" /\ perf_counter = c
                     /\ clk = self.clk /\ ts = self.ts
                     /\ nests = self.nests
                     /\ marks = <<Called(NoneV, c)>>

\* timer.mark() or timer.mark(item), nesting being left at its default.
Mark ==
    /\ tpc \in {"on", "off"}
    /\ Len(marks) <= MaxMarks
    /\ \E item \in Items :
          IF tpc = "off" THEN UNCHANGED tvars
          ELSE \E c \in Readings :
                  LET self == mark([clk |-> clk, ts |-> ts, nests |-> nests],
                                   item, NoneV, c)
                  IN /\ perf_counter' = c
                     /\ clk' = self.clk /\ ts' = self.ts
                     /\ nests' = self.nests
                     /\ marks' = Append(marks, Called(item, c))
                     /\ UNCHANGED tpc
    /\ UNCHANGED <<heap, heap0, mvars, gvars, avars, uvars>>

\* timer.zero(): ts and nests are emptied whether the timer is enabled or
\* not, then mark() is called.
Zero ==
    /\ tpc \in {"on", "off"}
    /\ IF tpc = "off"
       THEN /\ ts' = <<>> /\ nests' = <<>>
            /\ UNCHANGED <<tpc, perf_counter, clk, marks>>
       ELSE \E c \in Readings :
               LET self == mark([clk |-> clk, ts |-> <<>>, nests |-> <<>>],
                                NoneV, NoneV, c)
               IN /\ perf_counter' = c
                  /\ clk' = self.clk /\ ts' = self.ts
                  /\ nests' = self.nests
                  /\ marks' = <<Called(NoneV, c)>>
                  /\ UNCHANGED tpc
    /\ UNCHANGED <<heap, heap0, mvars, gvars, avars, uvars>>

NextTimer == Mark \/ Zero
SpecTimer == InitTimer /\ [][NextTimer]_vars

----------------------------------------------------------------------------
(* util.py: SimArrays *)

MaxRows == 2     \* rows a SimArrays is initialized with
MaxERows == 3    \* rows extend is asked for

\* ntvi0.names, and the names extend may be given (one of them is the name
\* of no array).
ArrayNames == <<"x", "v">>
NameArgs == {"x", "v", "w"}
\* A row of an array is held as one value: 0 for a row of zeros, 1 for a
\* row that holds something else.
RowVals == {0, 1}

\* np.zeros((n,)+shape, etype)
zeros(n) == [r \in 1..n |-> 0]
\* newarray[0:n] = array[0:n]
CopyRowsAll(newarray, array, n) ==
    [r \in 1..Len(newarray) |->
        IF r <= Len(array) THEN array[r] ELSE newarray[r]]
CopyRows(newarray, array, n) ==
    [r \in 1..Len(newarray) |-> IF r <= n THEN array[r] ELSE newarray[r]]

\* The for loop of extend, from the c-th name of ntvi0.names on.
RECURSIVE extendLoop(_, _, _, _)
extendLoop(arrs, names, erows, c) ==
    IF c > Len(ArrayNames) THEN arrs
    ELSE LET name == ArrayNames[c] IN
         IF name \in names
         THEN LET array == arrs[name]
                  newarray == CopyRows(zeros(erows), array, rows)
              IN extendLoop([arrs EXCEPT ![name] = newarray], names, erows,
                            c + 1)
         ELSE extendLoop(arrs, names, erows, c + 1)

\* The SimArrays after SimArrays(ntvis, zrows, vlists), ntvis not empty:
\* every array has rows rows, all zeros (zrows given) or filled, in full or
\* in part, from ntvis or vlists.
InitArrays ==
    /\ GIdle /\ MIdle /\ TIdle /\ UIdle
    /\ heap = <<>> /\ heap0 = <<>>
    /\ rows \in 0..MaxRows
    /\ rows0 = rows
    /\ arrays \in [{ArrayNames[c] : c \in 1..Len(ArrayNames)}
                      -> [1..rows -> RowVals]]
    /\ arrays0 = <<>> /\ acall = NoCall
    /\ apc = "ready"

\* self.extend(names, erows): zz raises SystemExit when erows is less than
\* self.rows.
Extend ==
    /\ apc \in {"ready", "extended"}
    /\ \E names \in SUBSET NameArgs, erows \in 0..MaxERows :
          /\ acall' = [names |-> names, erows |-> erows]
          /\ arrays0' = arrays
          /\ IF erows < rows
             THEN apc' = "exited" /\ UNCHANGED arrays
             ELSE /\ arrays' = extendLoop(arrays, names, erows, 1)
                  /\ apc' = "extended"
    /\ UNCHANGED <<rows, rows0>>
    /\ UNCHANGED <<heap, heap0, mvars, gvars, tvars, uvars>>

\* The user of the arrays writes a row: getattr(sa, name)[r] = v.
Store ==
    /\ apc \in {"ready", "extended"}
    /\ \E c \in 1..Len(ArrayNames), v \in RowVals :
          \E r \in 1..Len(arrays[ArrayNames[c]]) :
             arrays' = [arrays EXCEPT ![ArrayNames[c]][r] = v]
    /\ apc' = "ready" /\ arrays0' = <<>> /\ acall' = NoCall
    /\ UNCHANGED <<rows, rows0>>
    /\ UNCHANGED <<heap, heap0, mvars, gvars, tvars, uvars>>

NextArrays == Extend \/ Store
SpecArrays == InitArrays /\ [][NextArrays]_vars

----------------------------------------------------------------------------
(* util.py: get_units *)

MaxMantissa == 9   \* the numbers tried are m * 10^e with m in 1..MaxMantissa
MaxExp == 13       \* and e in -MaxExp..MaxExp

\* A number in decimal: m * 10^e.  A literal such as 1e-12 is written
\* with m = 1, so that two literals are equal numbers exactly when they are
\* equal records.
Dec(m, e) == [m |-> m, e |-> e]
RECURSIVE NDigits(_)
NDigits(m) == IF m < 10 THEN 1 ELSE 1 + NDigits(m \div 10)
RECURSIVE Pow10(_)
Pow10(n) == IF n = 0 THEN 1 ELSE 10 * Pow10(n - 1)
\* a > b, for positive numbers: by order of magnitude, then by the
\* mantissas brought to one exponent.
Gt(a, b) ==
    LET maga == NDigits(a.m) + a.e
        magb == NDigits(b.m) + b.e
        lo == IF a.e < b.e THEN a.e ELSE b.e
    IN IF maga # magb THEN maga > magb
       ELSE a.m * Pow10(a.e - lo) > b.m * Pow10(b.e - lo)

\* What get_units returns: umult, ustr, ustrp.
Units(umult, ustr, ustrp) ==
    [umult |-> umult, ustr |-> ustr, ustrp |-> ustrp]
\* Lines 76 to 92; 1-9 on line 78 is a subtraction of integers.
get_units(n) ==
    IF Gt(n, Dec(1, 12)) THEN Units(Dec(1, -12), "T", "T")
    ELSE IF Gt(n, Dec(1, 9)) THEN Units(Dec(1 - 9, 0), "G", "G")
    ELSE IF Gt(n, Dec(1, 6)) THEN Units(Dec(1, -6), "M", "M")
    ELSE IF Gt(n, Dec(1, 3)) THEN Units(Dec(1, -3), "k", "k")
    ELSE IF Gt(n, Dec(1, 0)) THEN Units(Dec(1, 0), "", "")
    ELSE IF Gt(n, Dec(1, -3)) THEN Units(Dec(1, 3), "m", "m")
    ELSE IF Gt(n, Dec(1, -6)) THEN Units(Dec(1, 6), "micro-", "$\\mu$")
    ELSE IF Gt(n, Dec(1, -9)) THEN Units(Dec(1, 9), "n", "n")
    ELSE Units(Dec(1, 12), "f", "f")

\* The positive numbers get_units is called with.
InitUnits ==
    /\ GIdle /\ MIdle /\ TIdle /\ AIdle
    /\ heap = <<>> /\ heap0 = <<>>
    /\ num \in {Dec(m, e) : m \in 1..MaxMantissa, e \in (0 - MaxExp)..MaxExp}
    /\ ures = NoneV
    /\ upc = "call"

\* umult, ustr, ustrp = get_units(num)
GetUnits ==
    /\ upc = "call"
    /\ ures' = get_units(num)
    /\ upc' = "done"
    /\ UNCHANGED num
    /\ UNCHANGED <<heap, heap0, mvars, gvars, tvars, avars>>

NextUnits == GetUnits
SpecUnits == InitUnits /\ [][NextUnits]_vars

----------------------------------------------------------------------------
(* Properties of rupdate, on a finished direct call *)

Returned == mpc = "done" /\ mres.err = ""
EmptyContent == [t |-> "dict", items |-> EmptyItems]

\* The properties C1 states of the mapping a finished call returned.
MergedAsC1 ==
    /\ IsDict(heap, mres.v)
    /\ KeysOf(heap, mres.v) = KeysOf(heap0, dict1) \cup KeysOf(heap0, dict2)
    /\ \A k \in KeysOf(heap0, dict1) \ KeysOf(heap0, dict2) :
          Content(heap, ItemOf(heap, mres.v, k))
             = Content(heap0, ItemOf(heap0, dict1, k))
    /\ \A k \in KeysOf(heap0, dict2) \ KeysOf(heap0, dict1) :
          Content(heap, ItemOf(heap, mres.v, k))
             = Content(heap0, ItemOf(heap0, dict2, k))
    /\ \A k \in KeysOf(heap0, dict1) \cap KeysOf(heap0, dict2) :
          (IsDict(heap0, ItemOf(heap0, dict1, k))
              /\ IsDict(heap0, ItemOf(heap0, dict2, k)))
          => LET sub == rupdate(heap0, ItemOf(heap0, dict1, k),
                                ItemOf(heap0, dict2, k))
             IN /\ sub.err = ""
                /\ Content(heap, ItemOf(heap, mres.v, k))
                      = Content(sub.h, sub.v)

\* C1: for all mappings A and B, rupdate(A, B) returns a mapping whose keys
\* are those of A and of B, which keeps A's value at the keys only A has,
\* holds B's value at the keys only B has, and holds rupdate(A[k], B[k]) at
\* every key where both hold mappings.
C1_Claim == mpc = "done" => (mres.err = "" /\ MergedAsC1)

\* What holds of C1 on the code: every call that returns satisfies it.
C1_WhenReturned == Returned => MergedAsC1

C8_InputsNotMutated ==
    mpc = "done" =>
       /\ Len(heap) >= Len(heap0)
       /\ \A a \in 1..Len(heap0) : heap[a] = heap0[a]
       /\ Content(heap, dict1) = Content(heap0, dict1)
       /\ Content(heap, dict2) = Content(heap0, dict2)
       /\ mres.err = "" => (IsDict(heap, mres.v) /\ mres.v.a > Len(heap0))

\* C8's case: a returned merge of two mappings that share a key at which
\* both hold non-empty mappings.
C8_Witness ==
    /\ Returned
    /\ \E k \in KeysOf(heap0, dict1) \cap KeysOf(heap0, dict2) :
          /\ IsDict(heap0, ItemOf(heap0, dict1, k))
          /\ IsDict(heap0, ItemOf(heap0, dict2, k))
          /\ KeysOf(heap0, ItemOf(heap0, dict1, k)) # {}
          /\ KeysOf(heap0, ItemOf(heap0, dict2, k)) # {}

\* C9: the empty mapping is an identity on both sides: rupdate(A, {})
\* returns a mapping equal in content to A, and rupdate({}, B) one equal
\* in content to B.
C9_EmptyIsIdentity ==
    mpc = "done" =>
       /\ Content(heap0, dict2) = EmptyContent
          => (mres.err = ""
              /\ Content(heap, mres.v) = Content(heap0, dict1))
       /\ Content(heap0, dict1) = EmptyContent
          => (mres.err = ""
              /\ Content(heap, mres.v) = Content(heap0, dict2))

\* C9's case: rupdate({}, B) returned, for a B that nests a non-empty
\* mapping in a mapping.
C9_Witness ==
    /\ Returned
    /\ Content(heap0, dict1) = EmptyContent
    /\ \E k \in KeysOf(heap0, dict2) :
          /\ IsDict(heap0, ItemOf(heap0, dict2, k))
          /\ \E j \in KeysOf(heap0, ItemOf(heap0, dict2, k)) :
                IsDict(heap0, ItemOf(heap0, ItemOf(heap0, dict2, k), j))

----------------------------------------------------------------------------
(* Properties of get_configs *)

Terminal == pc \in {"done", "raised"}
\* The call can take its next step (LoadDocs and Combine are enabled
\* whenever their guards hold).
CanStep ==
    \/ AtLoadDocs \/ AtCombine
    \/ ENABLED (Start \/ OpenMissing \/ Open \/ LoadBad \/ ExitWith
                   \/ Summary \/ PrintConfigs \/ TypeOk \/ TypeMismatch
                   \/ Return)
PathOf(i) == with_suffix(cfiles[i])
\* Every file named exists and parses.
AllLoad == \A i \in 1..Len(cfiles) : fs[PathOf(i)].k = "docs"
\* The number of documents of each file (of files that all load).
Counts == [i \in 1..Len(cfiles) |-> Len(fs[PathOf(i)].docs)]
RECURSIVE ProdFrom(_, _)
ProdFrom(c, i) == IF i > Len(c) THEN 1 ELSE c[i] * ProdFrom(c, i + 1)
\* The index tuples of the combinations, and the p-th of them in
\* lexicographic order (the last index varying fastest).
IndexTuples ==
    {t \in [1..Len(cfiles) -> 1..MaxDocs] :
        \A j \in 1..Len(cfiles) : t[j] <= Counts[j]}
TupleAt(p) ==
    [j \in 1..Len(cfiles) |->
        (((p - 1) \div ProdFrom(Counts, j + 1)) % Counts[j]) + 1]
\* The documents a tuple of indices selects, one per file, as literals.
ComboOf(t) == [j \in 1..Len(cfiles) |-> fs[PathOf(j)].docs[t[j]]]

\* C3: when all the files load and types is empty, the call returns
\* exactly d1 * ... * dn configurations (none, and no error, when a file
\* holds no document).
C3_Claim ==
    (Terminal /\ AllLoad /\ types = <<>>)
    => (pc = "done" /\ exc = "" /\ Len(ret.v) = ProdFrom(Counts, 1))

\* What holds of C3 on the code: a call that returns, returns that many.
C3_WhenReturned == pc = "done" => Len(ret.v) = ProdFrom(Counts, 1)

\* The configuration finaldict makes of a combination of documents.
ResolvedOf(lits) ==
    LET l == safe_load_all(<<>>, lits, 1, <<>>)
        r == finaldict(l.h, l.v)
    IN [err |-> r.err, c |-> Content(r.h, r.v)]

\* C4: the list returned is in the order of the Cartesian product of the
\* files' documents with the last file's index varying fastest: position p
\* holds the configuration of the p-th index tuple in lexicographic order.
\* The list is a function of the file names and file contents alone.
C4_ProductOrder ==
    pc = "done" =>
       /\ Len(ret.v) = ProdFrom(Counts, 1)
       /\ \A p \in 1..Len(ret.v) :
             Content(heap, ret.v[p]) = ResolvedOf(ComboOf(TupleAt(p))).c

\* C4's case: a returned list of four configurations, two documents in
\* each of two different files.
C4_Witness ==
    /\ pc = "done" /\ Len(ret.v) = 4 /\ Len(cfiles) = 2
    /\ cfiles[1] # cfiles[2]
    /\ Content(heap, ret.v[2]) # Content(heap, ret.v[3])

\* The left fold acc = {}; acc = merge(acc, d_i) for i = 1..n.
RECURSIVE FoldMerge(_, _, _, _)
FoldMerge(h, acc, ds, i) ==
    IF i > Len(ds) THEN Ok(h, acc)
    ELSE LET r == rupdate(h, acc, ds[i]) IN
         IF r.err # "" THEN r ELSE FoldMerge(r.h, r.v, ds, i + 1)
FoldOf(lits) ==
    LET l == safe_load_all(<<>>, lits, 1, <<>>)
        e == New(l.h, EmptyDict)
        r == FoldMerge(e.h, e.v, l.v, 1)
    IN [err |-> r.err, c |-> Content(r.h, r.v)]
\* merge(doc1, doc2) of two literals.
MergeOf(lit1, lit2) ==
    LET l == safe_load_all(<<>>, <<lit1, lit2>>, 1, <<>>)
        r == rupdate(l.h, l.v[1], l.v[2])
    IN [err |-> r.err, c |-> Content(r.h, r.v)]

Matches(i) ==
    /\ "type" \in KeysOf(heap, cdicts[i])
    /\ \E j \in 1..Len(types) :
          Content(heap, ItemOf(heap, cdicts[i], "type")) = Str(types[j])

\* C6: with types not empty, a list is returned only if every
\* configuration holds, under the key type, a member of types (a
\* configuration without the key does not match); the call raises
\* SystemExit at the first configuration that does not match and returns
\* no list, whatever matched before it.
C6_TypesChecked ==
    /\ (pc = "done" /\ types # <<>>)
       => (ret = ListV(cdicts) /\ \A p \in 1..Len(cdicts) : Matches(p))
    /\ (pc = "raised" /\ exc = "SystemExit")
       => /\ types # <<>> /\ ret = NoReturn
          /\ vi < Len(cdicts)
          /\ ~Matches(vi + 1)
          /\ \A q \in 1..vi : Matches(q)
    /\ (pc = "check" /\ types # <<>>)
       => /\ vi <= Len(cdicts)
          /\ \A q \in 1..vi : Matches(q)
          /\ (vi < Len(cdicts) /\ ~Matches(vi + 1))
             => (ENABLED TypeMismatch /\ ~ENABLED TypeOk /\ ~ENABLED Return)

\* C6's case: the second configuration fails the check after the first
\* one passed it.
C6_Witness ==
    /\ pc = "raised" /\ exc = "SystemExit" /\ vi = 1
    /\ "type" \in KeysOf(heap, cdicts[2])

\* The first file, in input order, that is missing or does not parse.
FirstFailing ==
    CHOOSE i \in 1..Len(cfiles) :
        /\ fs[PathOf(i)].k # "docs"
        /\ \A j \in 1..(i - 1) : fs[PathOf(j)].k = "docs"

\* C7: there is no partial success.  The files are loaded in input order;
\* a file that is missing or does not parse ends the call with that error,
\* with no list returned, no combination merged and nothing printed; a
\* list is returned only when every file loaded and, with types not empty,
\* every configuration passed the check.
C7_NoPartialSuccess ==
    /\ ret # NoReturn
       => /\ pc = "done" /\ exc = "" /\ AllLoad
          /\ types # <<>> => \A p \in 1..Len(ret.v) : Matches(p)
    /\ (Terminal /\ ~AllLoad)
       => /\ pc = "raised" /\ ret = NoReturn
          /\ exc = (IF fs[PathOf(FirstFailing)].k = "missing"
                    THEN "FileNotFoundError" ELSE "YAMLError")
          /\ fi = FirstFailing
          /\ cdicts = <<>> /\ nd = 0 /\ out = <<>>
          /\ \A a \in 1..Len(heap) : \E i \in 1..Len(fdicts) :
                \E d \in 1..Len(fdicts[i]) : a <= fdicts[i][d].a
    /\ pc \in {"for", "load", "exit_with"}
       => /\ Len(fdicts) = (IF pc = "exit_with" /\ pending = ""
                            THEN fi ELSE fi - 1)
          /\ \A i \in 1..Len(fdicts) :
                /\ fs[files[i]].k = "docs"
                /\ Len(fdicts[i]) = Len(fs[files[i]].docs)
                /\ \A d \in 1..Len(fdicts[i]) :
                      Content(heap, fdicts[i][d])
                         = Content(Load(<<>>, fs[files[i]].docs[d]).h,
                                   Load(<<>>, fs[files[i]].docs[d]).v)
    /\ ~Terminal => CanStep

\* C7's case: the second file does not parse after the first one loaded
\* documents.
C7_Witness ==
    /\ pc = "raised" /\ exc = "YAMLError" /\ fi = 2
    /\ Len(fdicts) = 1 /\ Len(fdicts[1]) = 2

\* C10: with no file and no allowed type, the call returns the list of
\* one configuration, the empty mapping, and raises nothing.
C10_NoFiles ==
    (cfiles = <<>> /\ types = <<>>)
    => /\ pc # "raised" /\ exc = ""
       /\ pc = "done" => /\ Len(ret.v) = 1
                         /\ Content(heap, ret.v[1]) = EmptyContent
       /\ ~Terminal => CanStep

\* C10's case: the call with no file and no allowed type returned.
C10_Witness == pc = "done" /\ cfiles = <<>> /\ types = <<>>

\* The summary line and the line of the ic-th configuration, as the claim
\* has them: the number of configurations, the paths read in input order,
\* and each configuration with its number out of nd.
SummaryLine ==
    [line |-> "Read", nd |-> Len(cdicts),
     files |-> [i \in 1..Len(cfiles) |-> PathOf(i)]]
ConfigLine(ic) ==
    [line |-> "CONFIG", ic |-> ic, nd |-> Len(cdicts),
     c |-> Content(heap, cdicts[ic])]
EmittedAsC11 ==
    /\ verbose = 0 => out = <<>>
    /\ verbose = 1 => out = <<SummaryLine>>
    /\ verbose >= 2
       => out = <<SummaryLine>> \o [ic \in 1..Len(cdicts) |-> ConfigLine(ic)]

\* C11: in every call in which all files load, nothing is printed at
\* verbosity 0; at verbosity 1 or more exactly one summary line is
\* printed, with the number of configurations and the files read in input
\* order; at verbosity 2 or more every configuration is printed once after
\* it, in output order, numbered 1..nd out of nd.
C11_Claim == (Terminal /\ AllLoad) => EmittedAsC11

\* What holds of C11 on the code: every call that gets past the merging
\* of the combinations has printed as C11 says, whether it then returns or
\* fails the type check.
C11_WhenMerged ==
    (pc \in {"check", "done"} \/ (pc = "raised" /\ exc = "SystemExit"))
    => EmittedAsC11

----------------------------------------------------------------------------
(* Properties of CpuTimer *)

\* The clock time between the i-th remembered call and the call before it
\* (the first remembered call is the creation or the last zero()).
Interval(i) == marks[i].at - marks[i - 1].at
\* The calls of mark since the creation or the last zero().
MarkCalls == 2..Len(marks)
RECURSIVE SumIntervals(_)
SumIntervals(I) ==
    IF I = {} THEN 0
    ELSE LET i == CHOOSE x \in I : TRUE
         IN Interval(i) + SumIntervals(I \ {i})
\* The time the calls mark(item) ended.
Elapsed(item) == SumIntervals({i \in MarkCalls : marks[i].item = item})
RECURSIVE SumT(_)
SumT(S) ==
    IF S = {} THEN 0
    ELSE LET x == CHOOSE y \in S : TRUE IN tOf(x) + SumT(S \ {x})

\* C12: for an enabled timer, after any calls of mark(), mark(item) and
\* zero(): t(item) is the sum, over the calls mark(item) since the creation
\* or the last zero(), of the clock time between the call and the mark
\* call before it (or the creation or zero()); an interval ended by mark()
\* is added to no item; t of an item never marked is 0.0; ttot() is the
\* sum of t(item) over the marked items.
C12_Claim ==
    tpc = "on" =>
       /\ \A item \in Items \ {NoneV} : tOf(item) = Elapsed(item)
       /\ \A item \in Items \ {marks[i].item : i \in MarkCalls} :
             tOf(item) = 0
       /\ ttot = SumT({marks[i].item : i \in MarkCalls} \ {NoneV})
       /\ ttot = SumIntervals({i \in MarkCalls : marks[i].item # NoneV})

\* An item with a name: a string that is not empty.
Named(item) == ~Falsy(item)

\* What holds of C12 on the code: it holds of the items that are not the
\* empty string; mark('') acts as mark(), its interval is added to no item
\* and t('') stays 0.0.
C12_NamedItems ==
    tpc = "on" =>
       /\ \A item \in Items : Named(item) => tOf(item) = Elapsed(item)
       /\ \A item \in Items : Falsy(item) => tOf(item) = 0
       /\ \A item \in Items \ {marks[i].item : i \in MarkCalls} :
             tOf(item) = 0
       /\ ttot = SumT({marks[i].item : i \in MarkCalls})
       /\ ttot = SumIntervals({i \in MarkCalls : Named(marks[i].item)})

----------------------------------------------------------------------------
(* Properties of rupdate where a mapping overrides a value that is none *)

\* merge({}, B[k]), for the key k of the override of the finished call.
OntoEmpty(k) ==
    LET e == New(heap0, EmptyDict)
    IN rupdate(e.h, e.v, ItemOf(heap0, dict2, k))

\* C13: where the override holds a mapping at a key at which the base
\* holds a value that is not a mapping (a scalar, a list or None), the
\* merge takes the base value as absent: it raises nothing and its value
\* at the key is merge({}, B[k]).
C13_Claim ==
    mpc = "done" =>
       \A k \in KeysOf(heap0, dict1) \cap KeysOf(heap0, dict2) :
          (IsDict(heap0, ItemOf(heap0, dict2, k))
              /\ ~IsDict(heap0, ItemOf(heap0, dict1, k)))
          => /\ mres.err = ""
             /\ Content(heap, ItemOf(heap, mres.v, k))
                   = Content(OntoEmpty(k).h, OntoEmpty(k).v)

----------------------------------------------------------------------------
(* Properties of get_configs: the storage of what it returns *)

\* The mappings held in the value v, at any depth: the addresses of the
\* dict objects reached from v through dict entries and list elements.
RECURSIVE DictsIn(_, _)
DictsIn(h, v) ==
    IF ~IsRef(v) THEN {}
    ELSE LET o == h[v.a] IN
         IF o.t = "dict"
         THEN {v.a} \cup UNION {DictsIn(h, o.items[k]) : k \in DOMAIN o.items}
         ELSE UNION {DictsIn(h, o.elems[i]) : i \in 1..Len(o.elems)}
\* Those reached through dict entries alone.
RECURSIVE DictsUnder(_, _)
DictsUnder(h, v) ==
    IF ~IsDict(h, v) THEN {}
    ELSE {v.a} \cup UNION {DictsUnder(h, h[v.a].items[k]) :
                              k \in DOMAIN h[v.a].items}
\* The documents loaded by the call.
Loaded == UNION {{fdicts[i][d] : d \in 1..Len(fdicts[i])} :
                    i \in 1..Len(fdicts)}

\* C14: every configuration returned is a new mapping that shares no
\* mapping, at any depth, with a loaded document or with another
\* configuration of the call (so that changing a nested mapping of one
\* changes no other and no document); of a single file, the
\* configurations are equal in content to its documents.
C14_Claim ==
    pc = "done" =>
       /\ \A p \in 1..Len(ret.v) : \A doc \in Loaded :
             DictsIn(heap, ret.v[p]) \cap DictsIn(heap, doc) = {}
       /\ \A p, q \in 1..Len(ret.v) :
             p # q => DictsIn(heap, ret.v[p]) \cap DictsIn(heap, ret.v[q]) = {}
       /\ Len(cfiles) = 1
          => /\ Len(ret.v) = Len(fdicts[1])
             /\ \A p \in 1..Len(ret.v) :
                   Content(heap, ret.v[p]) = Content(heap, fdicts[1][p])

\* What holds of C14 on the code: the mappings a configuration holds under
\* its keys, not inside a list, are its own; a list is the very list of
\* the document it comes from, with the mappings in it.
C14_FreshUnderKeys ==
    pc = "done" =>
       /\ \A p \in 1..Len(ret.v) : \A doc \in Loaded :
             DictsUnder(heap, ret.v[p]) \cap DictsIn(heap, doc) = {}
       /\ \A p, q \in 1..Len(ret.v) :
             p # q => DictsUnder(heap, ret.v[p]) \cap DictsIn(heap, ret.v[q])
                         = {}
       /\ Len(cfiles) = 1
          => /\ Len(ret.v) = Len(fdicts[1])
             /\ \A p \in 1..Len(ret.v) :
                   Content(heap, ret.v[p]) = Content(heap, fdicts[1][p])

----------------------------------------------------------------------------
(* Properties of get_configs: the files it opens *)

\* C15: each file is open from its open() to the exit of its with block
\* and at no other time: while its documents are parsed it is the one
\* file open, all of its documents have been parsed when the block is
\* left, and no file is open when the next one is opened, when the
\* combinations are merged, or when the call has returned or raised (a
\* file that does not parse and a missing later file included).
C15_ScopedFiles ==
    /\ Cardinality(strm) <= 1
    /\ pc \in {"load", "exit_with"} => strm = {files[fi]}
    /\ pc \notin {"load", "exit_with"} => strm = {}
    /\ (pc = "exit_with" /\ pending = "")
       => /\ Len(fdicts) = fi
          /\ Len(fdicts[fi]) = Len(fs[files[fi]].docs)
    /\ pc = "exit_with" => (pending # "" <=> fs[files[fi]].k = "bad")
    /\ Terminal => strm = {}

\* C15's case: the second file is missing, after the first one was opened,
\* read and closed.
C15_Witness ==
    /\ pc = "raised" /\ exc = "FileNotFoundError" /\ fi = 2
    /\ Len(fdicts) = 1 /\ Len(fdicts[1]) > 0 /\ strm = {}

----------------------------------------------------------------------------
(* Properties of SimArrays.extend *)

\* C16: extend(names, erows) with erows less than the number of rows the
\* SimArrays was initialized with does an error exit and changes no array;
\* otherwise every array named has erows rows afterwards, the first rows
\* rows (the original number) as before the call and the others zero, and
\* every array not named is as before; so after any calls of extend, the
\* original number of rows never changing.
C16_ExtendFrame ==
    /\ apc = "exited" => (acall.erows < rows0 /\ arrays = arrays0)
    /\ apc = "extended"
       => /\ acall.erows >= rows0
          /\ DOMAIN arrays = DOMAIN arrays0
          /\ \A name \in DOMAIN arrays :
                IF name \in acall.names
                THEN /\ Len(arrays[name]) = acall.erows
                     /\ \A r \in 1..acall.erows :
                           arrays[name][r] = (IF r <= rows0
                                              THEN arrays0[name][r] ELSE 0)
                ELSE arrays[name] = arrays0[name]
    /\ apc # "idle"
       => /\ rows = rows0
          /\ \A name \in DOMAIN arrays : Len(arrays[name]) >= rows0

\* C16's case: an array that was extended before and written to beyond the
\* original rows is extended again, another array not being named.
C16_Witness ==
    /\ apc = "extended" /\ rows0 = 1
    /\ "x" \in acall.names /\ "v" \notin acall.names
    /\ Len(arrays0["x"]) = 3 /\ arrays0["x"][1] = 1 /\ arrays0["x"][2] = 1
    /\ acall.erows = 2
    /\ arrays0["v"] = <<1>>

----------------------------------------------------------------------------
(* Properties of get_units *)

\* The power of ten a prefix stands for: T, G, M, k, none, m, micro and n
\* as C17 lists them, and f (femto).
PrefixExp(ustr) ==
    CASE ustr = "T" -> 12 [] ustr = "G" -> 9 [] ustr = "M" -> 6
      [] ustr = "k" -> 3 [] ustr = "" -> 0 [] ustr = "m" -> -3
      [] ustr = "micro-" -> -6 [] ustr = "n" -> -9 [] ustr = "f" -> -15
\* The multiplier that goes with a prefix: umult * num is num in the
\* prefixed unit.
Agree(umult, ustr) == umult = Dec(1, 0 - PrefixExp(ustr))
\* The prefix of the range num lies in, the ranges being those of the
\* thresholds 1e12, 1e9, 1e6, 1e3, 1, 1e-3, 1e-6 and 1e-9.
InRange(n, ustr) ==
    CASE ustr = "T" -> Gt(n, Dec(1, 12))
      [] ustr = "f" -> ~Gt(n, Dec(1, -9))
      [] OTHER -> /\ Gt(n, Dec(1, PrefixExp(ustr)))
                  /\ ~Gt(n, Dec(1, PrefixExp(ustr) + 3))

\* C17: for every positive num, get_units(num) returns a multiplier and a
\* prefix that agree as engineering units (1e-12 with T, 1e-9 with G, 1e-6
\* with M, 1e-3 with k, 1 with no prefix, 1e3 with m, 1e6 with micro, 1e9
\* with n), the prefix being that of the range num lies in.
C17_Claim ==
    upc = "done" =>
       /\ Agree(ures.umult, ures.ustr)
       /\ InRange(num, ures.ustr)

\* What holds of C17 on the code: the prefix is that of the range of num
\* for every num, and the multiplier agrees with it in every range but
\* that of G and that at and below 1e-9.
C17_OtherRanges ==
    upc = "done" =>
       /\ InRange(num, ures.ustr)
       /\ ures.ustr \notin {"G", "f"} => Agree(ures.umult, ures.ustr)
       /\ ures.ustr = "G" => ures.umult = Dec(-8, 0)
       /\ ures.ustr = "f" => ures.umult = Dec(1, 12)

====
